---- MODULE Spec2Model ----
(***************************************************************************)
(* A model of the rectangle occlusion culling crate (src/src/lib.rs):      *)
(* FrontToBackBuilder (add, test, clear), apply_occluder and               *)
(* BackToFrontBuilder (add, build).                                        *)
(*                                                                         *)
(* Coordinates are f32 in the source.  The code only compares, copies and  *)
(* takes min/max of coordinates, so small integers (exactly representable  *)
(* in f32) behave exactly as in the source.  NaN and infinities are not    *)
(* modelled.  Vec and SmallVec indices are 0-based in the source and       *)
(* sequences are 1-based here: rects[i] of the source is rects[i + 1].     *)
(***************************************************************************)
EXTENDS Integers, Sequences, FiniteSets

\* Largest coordinate of an input rectangle (inputs lie on the grid 0..MaxCoord).
MaxCoord == 2
\* Largest number of calls made on a builder in one behaviour.
MaxOps == 3

VARIABLES
    opaque_items,      \* FrontToBackBuilder.opaque_items
    alpha_items,       \* FrontToBackBuilder.alpha_items
    commands,          \* BackToFrontBuilder.commands
    btf_opaque_items,  \* BackToFrontBuilder.opaque_items
    btf_alpha_items,   \* BackToFrontBuilder.alpha_items
    call,              \* the last call made: its name, arguments and outcome
    nops,              \* number of calls made so far
    log,               \* the add calls made on the FrontToBackBuilder since new or clear
    pass               \* one add followed step by step: rect, fragments, and the
                       \* locals of the running apply_occluder (occluder, rects, i)

vars == <<opaque_items, alpha_items, commands, btf_opaque_items,
          btf_alpha_items, call, nops, log, pass>>

----------------------------------------------------------------------------
(* Geometry: euclid's Box2D<f32> and point2.                               *)

point2(x, y) == [x |-> x, y |-> y]

Box2D(min, max) == [min |-> min, max |-> max]

Coords == 0 .. MaxCoord

\* The well-formed input rectangles: min <= max on both axes (zero-area ones included).
Rects ==
    { Box2D(point2(x0, y0), point2(x1, y1)) :
        <<x0, y0, x1, y1>> \in
            { q \in Coords \X Coords \X Coords \X Coords :
                q[1] <= q[3] /\ q[2] <= q[4] } }

\* The key of the next rectangle: callers number their rectangles in
\* submission order, as the crate's tests do, so the key names the call an
\* item comes from.  The code only copies keys.
Keys == {nops + 1}

\* f32::max and f32::min (no NaN in the model).
f32_max(a, b) == IF a >= b THEN a ELSE b
f32_min(a, b) == IF a <= b THEN a ELSE b

\* A variant of intersects that counts touching edges as intersecting.
intersects_touching(a, b) ==
    /\ a.min.x <= b.max.x /\ a.max.x >= b.min.x
    /\ a.min.y <= b.max.y /\ a.max.y >= b.min.y

\* Box2D::intersects: strict on every edge.
intersects(a, b) ==
    /\ a.min.x < b.max.x /\ a.max.x > b.min.x
    /\ a.min.y < b.max.y /\ a.max.y > b.min.y

Item(rectangle, key) == [rectangle |-> rectangle, key |-> key]

----------------------------------------------------------------------------
(* Vec / SmallVec operations used by the code.                             *)

push(v, e) == Append(v, e)

pop(v) == SubSeq(v, 1, Len(v) - 1)

\* swap_remove(i): the element at 0-based index i is replaced by the last
\* element, and the vector shrinks by one.
swap_remove(v, i) ==
    IF i + 1 = Len(v)
    THEN SubSeq(v, 1, Len(v) - 1)
    ELSE [k \in 1 .. Len(v) - 1 |-> IF k = i + 1 THEN v[Len(v)] ELSE v[k]]

RECURSIVE reverse(_)
reverse(v) == IF v = <<>> THEN <<>> ELSE Append(reverse(Tail(v)), Head(v))

----------------------------------------------------------------------------
(* apply_occluder                                                          *)

\* The four band conditions of one fragment r against the occluder.
band_top(r, occluder) == r.min.y < occluder.min.y /\ r.max.y > occluder.min.y
band_bottom(r, occluder) == r.max.y > occluder.max.y /\ r.min.y < occluder.max.y
band_left(r, occluder) == r.min.x < occluder.min.x /\ r.max.x > occluder.min.x
band_right(r, occluder) == r.max.x > occluder.max.x /\ r.min.x < occluder.max.x

\* A variant of bands whose left and right bands keep the fragment's full
\* height (a nine-patch slip: the corners are then covered twice).
bands_full_height(r, occluder) ==
    (IF band_top(r, occluder)
        THEN << Box2D(r.min, point2(r.max.x, occluder.min.y)) >> ELSE <<>>)
    \o (IF band_bottom(r, occluder)
        THEN << Box2D(point2(r.min.x, occluder.max.y), r.max) >> ELSE <<>>)
    \o (IF band_left(r, occluder)
        THEN << Box2D(r.min, point2(occluder.min.x, r.max.y)) >> ELSE <<>>)
    \o (IF band_right(r, occluder)
        THEN << Box2D(point2(occluder.max.x, r.min.y), r.max) >> ELSE <<>>)

\* A variant of bands that drops the right band.
bands_no_right(r, occluder) ==
    (IF band_top(r, occluder)
        THEN << Box2D(r.min, point2(r.max.x, occluder.min.y)) >> ELSE <<>>)
    \o (IF band_bottom(r, occluder)
        THEN << Box2D(point2(r.min.x, occluder.max.y), r.max) >> ELSE <<>>)
    \o (IF band_left(r, occluder)
        THEN << Box2D(point2(r.min.x, f32_max(r.min.y, occluder.min.y)),
                      point2(occluder.min.x, f32_min(r.max.y, occluder.max.y))) >>
        ELSE <<>>)

\* The bands pushed for one intersecting fragment, in push order.
bands(r, occluder) ==
    (IF band_top(r, occluder)
        THEN << Box2D(r.min, point2(r.max.x, occluder.min.y)) >> ELSE <<>>)
    \o (IF band_bottom(r, occluder)
        THEN << Box2D(point2(r.min.x, occluder.max.y), r.max) >> ELSE <<>>)
    \o (IF band_left(r, occluder)
        THEN << Box2D(point2(r.min.x, f32_max(r.min.y, occluder.min.y)),
                      point2(occluder.min.x, f32_min(r.max.y, occluder.max.y))) >>
        ELSE <<>>)
    \o (IF band_right(r, occluder)
        THEN << Box2D(point2(occluder.max.x, f32_max(r.min.y, occluder.min.y)),
                      point2(r.max.x, f32_min(r.max.y, occluder.max.y))) >>
        ELSE <<>>)

\* A variant of split_at that removes rects[i] with Vec::remove (the later
\* elements shift down), so the bands stay in push order.
split_at_shift(occluder, rects, i) ==
    LET r == rects[i + 1]
        pushed == rects \o bands(r, occluder)
    IN  IF intersects(r, occluder)
        THEN SubSeq(pushed, 1, i) \o SubSeq(pushed, i + 2, Len(pushed))
        ELSE rects

\* A variant of split_at that always removes the last element (the pop branch
\* taken unconditionally) instead of rects[i].
split_at_pop(occluder, rects, i) ==
    LET r == rects[i + 1]
        pushed == rects \o bands(r, occluder)
    IN  IF intersects(r, occluder) THEN pop(pushed) ELSE rects

\* One iteration of the loop body for index i: push the bands of rects[i], then
\* remove rects[i].
split_at(occluder, rects, i) ==
    LET r == rects[i + 1]
        pushed == rects \o bands(r, occluder)
    IN  IF intersects(r, occluder)
        THEN IF i = Len(pushed) THEN pop(pushed) ELSE swap_remove(pushed, i)
        ELSE rects

\* The loop, from index i down to 0.
RECURSIVE occluder_loop(_, _, _)
occluder_loop(occluder, rects, i) ==
    LET next == split_at(occluder, rects, i)
    IN  IF i = 0 THEN next ELSE occluder_loop(occluder, next, i - 1)

\* apply_occluder: [panic, rects].  With an empty vector rects.len() - 1
\* underflows: a panic in a debug build, and in a release build the index wraps
\* to usize::MAX and rects[i] panics out of bounds.
apply_occluder(occluder, rects) ==
    IF Len(rects) = 0
    THEN [panic |-> TRUE, rects |-> rects]
    ELSE [panic |-> FALSE, rects |-> occluder_loop(occluder, rects, Len(rects) - 1)]

----------------------------------------------------------------------------
(* FrontToBackBuilder                                                      *)

\* A variant of add's loop that stops after the first intersecting occluder.
RECURSIVE add_loop_first_only(_, _, _, _)
add_loop_first_only(items, rect, fragments, k) ==
    IF k > Len(items) THEN [panic |-> FALSE, rects |-> fragments]
    ELSE IF fragments = <<>> THEN [panic |-> FALSE, rects |-> fragments]
    ELSE IF intersects(items[k].rectangle, rect)
         THEN apply_occluder(items[k].rectangle, fragments)
         ELSE add_loop_first_only(items, rect, fragments, k + 1)

\* The loop of add over the opaque items from 1-based position k on.
RECURSIVE add_loop(_, _, _, _)
add_loop(items, rect, fragments, k) ==
    IF k > Len(items) THEN [panic |-> FALSE, rects |-> fragments]
    ELSE IF fragments = <<>> THEN [panic |-> FALSE, rects |-> fragments]
    ELSE IF intersects(items[k].rectangle, rect)
         THEN LET res == apply_occluder(items[k].rectangle, fragments)
              IN  IF res.panic THEN res
                  ELSE add_loop(items, rect, res.rects, k + 1)
         ELSE add_loop(items, rect, fragments, k + 1)

\* The fragments of rect that add computes against the stored opaque items.
add_fragments(items, rect) == add_loop(items, rect, << rect >>, 1)

\* The loop of test: as add's, without the early exit on an empty vector.
RECURSIVE test_loop(_, _, _, _)
test_loop(items, rect, fragments, k) ==
    IF k > Len(items) THEN [panic |-> FALSE, rects |-> fragments]
    ELSE IF intersects(items[k].rectangle, rect)
         THEN LET res == apply_occluder(items[k].rectangle, fragments)
              IN  IF res.panic THEN res
                  ELSE test_loop(items, rect, res.rects, k + 1)
         ELSE test_loop(items, rect, fragments, k + 1)

test_fragments(items, rect) == test_loop(items, rect, << rect >>, 1)

\* The items add pushes for its fragments.
RECURSIVE to_items(_, _)
to_items(fragments, key) ==
    IF fragments = <<>> THEN <<>>
    ELSE << Item(Head(fragments), key) >> \o to_items(Tail(fragments), key)

\* A variant of builder_add that selects the list with the flag inverted.
builder_add_swapped(b, rect, is_opaque, key) ==
    LET res == add_fragments(b.opaque_items, rect)
        new == to_items(res.rects, key)
    IN  [opaque_items |-> IF is_opaque THEN b.opaque_items ELSE b.opaque_items \o new,
         alpha_items  |-> IF is_opaque THEN b.alpha_items \o new ELSE b.alpha_items,
         panic |-> res.panic,
         ret |-> res.rects # <<>>]

\* The builder after add(rect, is_opaque, key), and the value add returns.
builder_add(b, rect, is_opaque, key) ==
    LET res == add_fragments(b.opaque_items, rect)
        new == to_items(res.rects, key)
    IN  [opaque_items |-> IF is_opaque THEN b.opaque_items \o new ELSE b.opaque_items,
         alpha_items  |-> IF is_opaque THEN b.alpha_items ELSE b.alpha_items \o new,
         panic |-> res.panic,
         ret |-> res.rects # <<>>]

\* A command of the BackToFrontBuilder: the arguments of one add.
Command(rect, is_opaque, key) == [rect |-> rect, is_opaque |-> is_opaque, key |-> key]

\* The record of a call: its name, its arguments (for build, the pending
\* commands it consumes), the value it returned and whether it panicked.
NoCall == [op |-> "new", rect |-> Box2D(point2(0, 0), point2(0, 0)),
           is_opaque |-> FALSE, key |-> 0, commands |-> <<>>,
           ret |-> FALSE, panic |-> FALSE]

\* No add is being followed.
NoPass == [pc |-> "idle", rect |-> Box2D(point2(0, 0), point2(0, 0)),
           occluder |-> Box2D(point2(0, 0), point2(0, 0)), seen |-> {},
           rects |-> <<>>, i |-> 0, entry |-> <<>>, examined |-> <<>>]

Init ==
    /\ opaque_items = <<>>
    /\ alpha_items = <<>>
    /\ commands = <<>>
    /\ btf_opaque_items = <<>>
    /\ btf_alpha_items = <<>>
    /\ call = NoCall
    /\ nops = 0
    /\ log = <<>>
    /\ pass = NoPass

\* A call can be made: the bound is not reached and no earlier call panicked.
CanCall == nops < MaxOps /\ ~call.panic

\* FrontToBackBuilder::add
Add(rect, is_opaque, key) ==
    LET b == builder_add([opaque_items |-> opaque_items, alpha_items |-> alpha_items],
                         rect, is_opaque, key)
    IN  /\ CanCall
        /\ opaque_items' = IF b.panic THEN opaque_items ELSE b.opaque_items
        /\ alpha_items' = IF b.panic THEN alpha_items ELSE b.alpha_items
        /\ call' = [NoCall EXCEPT !.op = "add", !.rect = rect,
                                  !.is_opaque = is_opaque, !.key = key,
                                  !.ret = (b.ret /\ ~b.panic), !.panic = b.panic]
        /\ nops' = nops + 1
        /\ log' = IF b.panic THEN log ELSE Append(log, Command(rect, is_opaque, key))
        /\ UNCHANGED <<commands, btf_opaque_items, btf_alpha_items, pass>>

\* FrontToBackBuilder::test
Test(rect) ==
    LET res == test_fragments(opaque_items, rect)
    IN  /\ CanCall
        /\ call' = [NoCall EXCEPT !.op = "test", !.rect = rect,
                                  !.ret = (~res.panic /\ res.rects # <<>>),
                                  !.panic = res.panic]
        /\ nops' = nops + 1
        /\ UNCHANGED <<opaque_items, alpha_items, commands, btf_opaque_items,
                       btf_alpha_items, log, pass>>

\* A variant of clear that forgets alpha_items.
Clear_opaque_only ==
    /\ CanCall
    /\ opaque_items' = <<>>
    /\ call' = [NoCall EXCEPT !.op = "clear"]
    /\ nops' = nops + 1
    /\ log' = <<>>
    /\ UNCHANGED <<alpha_items, commands, btf_opaque_items, btf_alpha_items, pass>>

\* FrontToBackBuilder::clear
Clear ==
    /\ CanCall
    /\ opaque_items' = <<>>
    /\ alpha_items' = <<>>
    /\ call' = [NoCall EXCEPT !.op = "clear"]
    /\ nops' = nops + 1
    /\ log' = <<>>
    /\ UNCHANGED <<commands, btf_opaque_items, btf_alpha_items, pass>>

----------------------------------------------------------------------------
(* BackToFrontBuilder                                                      *)

\* The loop of build: commands.iter().rev(), from 1-based position k down to 1.
RECURSIVE build_loop(_, _, _)
build_loop(b, cmds, k) ==
    IF k = 0 \/ b.panic THEN b
    ELSE build_loop(builder_add(b, cmds[k].rect, cmds[k].is_opaque, cmds[k].key),
                    cmds, k - 1)

\* A variant of build that replays the commands in submission order.
build_forward(cmds) ==
    LET b == build_loop([opaque_items |-> <<>>, alpha_items |-> <<>>,
                         panic |-> FALSE, ret |-> FALSE], reverse(cmds), Len(cmds))
    IN  [opaque_items |-> b.opaque_items,
         alpha_items |-> reverse(b.alpha_items),
         panic |-> b.panic]

\* A variant of build that does not reverse the alpha list.
build_no_reverse(cmds) ==
    LET b == build_loop([opaque_items |-> <<>>, alpha_items |-> <<>>,
                         panic |-> FALSE, ret |-> FALSE], cmds, Len(cmds))
    IN  [opaque_items |-> b.opaque_items,
         alpha_items |-> b.alpha_items,
         panic |-> b.panic]

\* A variant of build that does not clear the result lists first: the replay
\* starts from the lists of the previous build.
build_no_clear(cmds) ==
    LET b == build_loop([opaque_items |-> btf_opaque_items, alpha_items |-> btf_alpha_items,
                         panic |-> FALSE, ret |-> FALSE], cmds, Len(cmds))
    IN  [opaque_items |-> b.opaque_items,
         alpha_items |-> reverse(b.alpha_items),
         panic |-> b.panic]

\* build: the lists are cleared and handed to a FrontToBackBuilder, the commands
\* are replayed in reverse, and the alpha list is reversed.
build(cmds) ==
    LET b == build_loop([opaque_items |-> <<>>, alpha_items |-> <<>>,
                         panic |-> FALSE, ret |-> FALSE], cmds, Len(cmds))
    IN  [opaque_items |-> b.opaque_items,
         alpha_items |-> reverse(b.alpha_items),
         panic |-> b.panic]

\* BackToFrontBuilder::add
BtfAdd(rect, is_opaque, key) ==
    /\ CanCall
    /\ commands' = push(commands, Command(rect, is_opaque, key))
    /\ call' = [NoCall EXCEPT !.op = "btf_add", !.rect = rect,
                              !.is_opaque = is_opaque, !.key = key]
    /\ nops' = nops + 1
    /\ UNCHANGED <<opaque_items, alpha_items, btf_opaque_items, btf_alpha_items,
                   log, pass>>

\* BackToFrontBuilder::build
Build ==
    LET b == build(commands)
    IN  /\ CanCall
        /\ btf_opaque_items' = IF b.panic THEN <<>> ELSE b.opaque_items
        /\ btf_alpha_items' = IF b.panic THEN <<>> ELSE b.alpha_items
        /\ commands' = IF b.panic THEN commands ELSE <<>>
        /\ call' = [NoCall EXCEPT !.op = "build", !.commands = commands,
                                  !.panic = b.panic]
        /\ nops' = nops + 1
        /\ UNCHANGED <<opaque_items, alpha_items, log, pass>>

Next ==
    \/ \E rect \in Rects, is_opaque \in BOOLEAN, key \in Keys : Add(rect, is_opaque, key)
    \/ \E rect \in Rects : Test(rect)
    \/ Clear

Spec == Init /\ [][Next]_vars

\* The back-to-front builder on its own.
NextBtf ==
    \/ \E rect \in Rects, is_opaque \in BOOLEAN, key \in Keys : BtfAdd(rect, is_opaque, key)
    \/ Build

SpecBtf == Init /\ [][NextBtf]_vars

\* The input rectangles of positive area.
PosRects == { r \in Rects : r.min.x < r.max.x /\ r.min.y < r.max.y }

\* The front-to-back builder used with rectangles of positive area only.
NextPos ==
    \/ \E rect \in PosRects, is_opaque \in BOOLEAN, key \in Keys : Add(rect, is_opaque, key)
    \/ \E rect \in PosRects : Test(rect)
    \/ Clear

SpecPos == Init /\ [][NextPos]_vars

----------------------------------------------------------------------------
(* One add followed through its calls of apply_occluder, one loop          *)
(* iteration per step.  The fragments present when apply_occluder is       *)
(* entered are numbered (field id) so that they can be told apart from the *)
(* bands pushed during the pass, which carry no id.                        *)

\* The working vector at entry, each fragment numbered by its position.
Tagged(rects) ==
    [k \in 1 .. Len(rects) |-> [min |-> rects[k].min, max |-> rects[k].max, id |-> k]]

\* The entry number of an element of the working vector, 0 for a pushed band.
IdOf(e) == IF "id" \in DOMAIN e THEN e.id ELSE 0

\* add: fragments.push(*rect)
PassBegin(rect) ==
    /\ pass.pc = "idle"
    /\ pass' = [NoPass EXCEPT !.pc = "fragments", !.rect = rect, !.rects = << rect >>]
    /\ UNCHANGED <<opaque_items, alpha_items, commands, btf_opaque_items,
                   btf_alpha_items, call, nops, log>>

\* add: the next stored opaque item that intersects rect is handed to
\* apply_occluder, unless the fragments are empty; apply_occluder sets i to
\* rects.len() - 1.  Stored opaque items never intersect one another.
PassEnter(occluder) ==
    /\ pass.pc \in {"fragments", "done"}
    /\ nops < MaxOps
    /\ pass.rects # <<>>
    /\ intersects(occluder, pass.rect)
    /\ \A o \in pass.seen : ~intersects(o, occluder)
    /\ pass' = [pass EXCEPT !.pc = "loop", !.occluder = occluder,
                            !.seen = @ \cup {occluder},
                            !.rects = Tagged(pass.rects),
                            !.entry = Tagged(pass.rects),
                            !.i = Len(pass.rects) - 1,
                            !.examined = <<>>]
    /\ nops' = nops + 1
    /\ UNCHANGED <<opaque_items, alpha_items, commands, btf_opaque_items,
                   btf_alpha_items, call, log>>

\* apply_occluder: one iteration of the loop, for index i.
PassStep ==
    /\ pass.pc = "loop"
    /\ pass' = [pass EXCEPT !.rects = split_at(pass.occluder, pass.rects, pass.i),
                            !.examined = Append(@, pass.rects[pass.i + 1]),
                            !.i = IF pass.i = 0 THEN 0 ELSE pass.i - 1,
                            !.pc = IF pass.i = 0 THEN "done" ELSE "loop"]
    /\ UNCHANGED <<opaque_items, alpha_items, commands, btf_opaque_items,
                   btf_alpha_items, call, nops, log>>

NextPass ==
    \/ \E rect \in Rects : PassBegin(rect)
    \/ \E occluder \in Rects : PassEnter(occluder)
    \/ PassStep

SpecPass == Init /\ [][NextPass]_vars

----------------------------------------------------------------------------
(* Vocabulary of the properties.                                           *)

\* The unit cells of the grid, named by their lower corner.
Cells == (0 .. MaxCoord - 1) \X (0 .. MaxCoord - 1)

\* The unit cells a rectangle covers.
CellsOf(r) ==
    { c \in Cells : /\ r.min.x <= c[1] /\ c[1] + 1 <= r.max.x
                    /\ r.min.y <= c[2] /\ c[2] + 1 <= r.max.y }

\* The unit cells covered by the items of a list.
Covered(items) == UNION { CellsOf(items[i].rectangle) : i \in 1 .. Len(items) }

\* The list that add(_, is_opaque, _) appends to, before and after the step.
ListBefore == IF call'.is_opaque THEN opaque_items ELSE alpha_items
ListAfter == IF call'.is_opaque THEN opaque_items' ELSE alpha_items'

\* The items appended by the step.
Appended == SubSeq(ListAfter, Len(ListBefore) + 1, Len(ListAfter))

\* The step is a call of FrontToBackBuilder::add.
AddStep == call'.op = "add"

ZeroArea(r) == r.min.x = r.max.x \/ r.min.y = r.max.y

\* A fresh FrontToBackBuilder fed the commands in order.
RECURSIVE front_to_back_from(_, _)
front_to_back_from(b, cmds) ==
    IF cmds = <<>> THEN b
    ELSE front_to_back_from(
            builder_add(b, Head(cmds).rect, Head(cmds).is_opaque, Head(cmds).key),
            Tail(cmds))

front_to_back(cmds) ==
    front_to_back_from([opaque_items |-> <<>>, alpha_items |-> <<>>,
                        panic |-> FALSE, ret |-> FALSE], cmds)

\* Two lists hold the same elements the same number of times.
Count(v, e) == Cardinality({ i \in 1 .. Len(v) : v[i] = e })
SameMultiset(v, w) ==
    /\ Len(v) = Len(w)
    /\ \A i \in 1 .. Len(v) : Count(v, v[i]) = Count(w, v[i])

\* Containment of a rectangle in the union of the (closed) rectangles of a
\* list, decided on the half-unit sample points of the grid: a point <<px, py>>
\* stands for (px / 2, py / 2).
SamplesOf(r) ==
    { s \in (0 .. 2 * MaxCoord) \X (0 .. 2 * MaxCoord) :
        /\ 2 * r.min.x <= s[1] /\ s[1] <= 2 * r.max.x
        /\ 2 * r.min.y <= s[2] /\ s[2] <= 2 * r.max.y }

ContainedInUnion(r, items) ==
    SamplesOf(r) \subseteq UNION { SamplesOf(items[i].rectangle) : i \in 1 .. Len(items) }

\* The visible part of a rectangle against the items of a list, in unit cells.
Visible(r, items) == CellsOf(r) \ Covered(items)

\* The positions of the stored items that intersect a rectangle.
Occluders(r, items) == { i \in 1 .. Len(items) : intersects(items[i].rectangle, r) }

\* Whether a set of cells can be partitioned into at most m rectangles: the
\* least cell must lie in one of them.
LeastCell(cells) ==
    CHOOSE c \in cells :
        \A d \in cells : c[1] < d[1] \/ (c[1] = d[1] /\ c[2] <= d[2])

RECURSIVE CanPartition(_, _)
CanPartition(cells, m) ==
    IF cells = {} THEN TRUE
    ELSE /\ m > 0
         /\ \E r \in PosRects :
               /\ LeastCell(cells) \in CellsOf(r)
               /\ CellsOf(r) \subseteq cells
               /\ CanPartition(cells \ CellsOf(r), m - 1)

\* The least number of rectangles that partition a set of cells.
MinPartition(cells) ==
    CHOOSE m \in 0 .. Cardinality(cells) :
        /\ CanPartition(cells, m)
        /\ m > 0 => ~CanPartition(cells, m - 1)

\* The 1-based position of the command with a key in the commands of a build.
Origin(cmds, key) == CHOOSE i \in 1 .. Len(cmds) : cmds[i].key = key

----------------------------------------------------------------------------
(* C1: no two distinct items of opaque_items overlap: for every pair of    *)
(* opaque items the strict intersection test is false.                      *)
C1_OpaqueDisjoint ==
    \A i, j \in 1 .. Len(opaque_items) :
        i # j => ~intersects(opaque_items[i].rectangle, opaque_items[j].rectangle)

\* An opaque add was split around stored items into several bands.
C1_Witness ==
    /\ call.op = "add" /\ call.is_opaque /\ call.ret
    /\ Len(opaque_items) >= 3
    /\ \E i \in 1 .. Len(opaque_items) :
          /\ ~ZeroArea(opaque_items[i].rectangle)
          /\ intersects(opaque_items[i].rectangle, call.rect)
          /\ opaque_items[i].rectangle # call.rect
    /\ opaque_items[Len(opaque_items)].rectangle # call.rect

(* C2: visibility conservation.  The items appended by an add partition    *)
(* the visible part of rect: a unit cell of rect not covered by an opaque  *)
(* item stored before the call lies in exactly one appended fragment, and  *)
(* every other cell (covered before, or outside rect) lies in none.        *)
C2_Conservation ==
    [][AddStep =>
        \A c \in Cells :
            Cardinality({ i \in 1 .. Len(Appended) : c \in CellsOf(Appended[i].rectangle) })
                = IF c \in CellsOf(call'.rect) \ Covered(opaque_items) THEN 1 ELSE 0
      ]_vars

\* An add whose rectangle was partly hidden and partly visible, in several fragments.
C2_Witness ==
    /\ call.op = "add" /\ ~call.is_opaque /\ call.ret
    /\ Len(alpha_items) >= 2
    /\ CellsOf(call.rect) \cap Covered(opaque_items) # {}
    /\ CellsOf(call.rect) \ Covered(opaque_items) # {}
    /\ \A i \in 1 .. Len(alpha_items) : alpha_items[i].key = call.key

(* C3: test(rect) completes and returns the boolean that add(rect, _, _)   *)
(* returns in the same state.                                              *)
C3_TestAgreesWithAdd ==
    call.op = "test" =>
        /\ ~call.panic
        /\ call.ret = (add_fragments(opaque_items, call.rect).rects # <<>>)

(* C4: add of a zero-area rectangle (min == max) appends no item to either *)
(* list and returns false.                                                 *)
C4_DegenerateAddsNothing ==
    [][(AddStep /\ call'.rect.min = call'.rect.max) =>
          /\ ~call'.ret
          /\ opaque_items' = opaque_items
          /\ alpha_items' = alpha_items
      ]_vars

(* C5: after build, the opaque items are, as a multiset, those of a fresh  *)
(* FrontToBackBuilder fed the commands in reverse order, and the alpha     *)
(* items are exactly the reverse of that builder's alpha items.            *)
C5_BackToFrontEquivalence ==
    (call.op = "build" /\ ~call.panic) =>
        LET f == front_to_back(reverse(call.commands))
        IN  /\ SameMultiset(btf_opaque_items, f.opaque_items)
            /\ btf_alpha_items = reverse(f.alpha_items)

\* A build whose result holds an opaque item and two different alpha items.
C5_Witness ==
    /\ call.op = "build" /\ Len(call.commands) >= 2
    /\ Len(btf_opaque_items) >= 1
    /\ Len(btf_alpha_items) >= 2
    /\ btf_alpha_items[1] # btf_alpha_items[2]

(* C6 as claimed: in every reachable state no alpha item overlaps any      *)
(* opaque item.                                                            *)
C6_AlphaNeverOverlapsOpaque ==
    \A i \in 1 .. Len(alpha_items), j \in 1 .. Len(opaque_items) :
        ~intersects(alpha_items[i].rectangle, opaque_items[j].rectangle)

(* C6 as amended: no alpha item appended by an add overlaps an opaque item *)
(* that was stored when it was added (an opaque rectangle added later, i.e. *)
(* behind it, may overlap it).                                              *)
C6_AlphaClearOfEarlierOpaque ==
    [][(AddStep /\ ~call'.is_opaque) =>
        \A i \in 1 .. Len(Appended), j \in 1 .. Len(opaque_items) :
            ~intersects(Appended[i].rectangle, opaque_items[j].rectangle)
      ]_vars

\* A non-opaque add that was split around a stored opaque item.
C6_Witness ==
    /\ call.op = "add" /\ ~call.is_opaque /\ call.ret
    /\ \E j \in 1 .. Len(opaque_items) : intersects(opaque_items[j].rectangle, call.rect)
    /\ \E i \in 1 .. Len(alpha_items) :
          alpha_items[i].key = call.key /\ alpha_items[i].rectangle # call.rect

(* C7: if rect is contained in the union of the rectangles of the opaque   *)
(* items already stored, add appends nothing and returns false.            *)
C7_FullOcclusion ==
    [][(AddStep /\ ContainedInUnion(call'.rect, opaque_items)) =>
          /\ ~call'.ret
          /\ opaque_items' = opaque_items
          /\ alpha_items' = alpha_items
      ]_vars

(* C8 as claimed: the number of fragments an add appends is the minimum    *)
(* number of rectangles that partition the visible part of rect.           *)
C8_MinimalFragments ==
    [][AddStep => Len(Appended) = MinPartition(Visible(call'.rect, opaque_items))]_vars

(* C8 as amended (rectangles of positive area): the count is the minimum   *)
(* when at most one stored opaque item intersects rect; in general each    *)
(* intersecting item replaces a fragment by at most four bands, so at most *)
(* 4^k fragments are appended for k intersecting items, not always the     *)
(* minimum.                                                                *)
C8_MinimalForOneOccluder ==
    [][AddStep =>
        LET k == Cardinality(Occluders(call'.rect, opaque_items))
        IN  /\ k <= 1 =>
                Len(Appended) = MinPartition(Visible(call'.rect, opaque_items))
            /\ Len(Appended) <= 4 ^ k
      ]_vars

\* An add split by exactly one stored opaque item into several fragments.
C8_Witness ==
    /\ call.op = "add" /\ ~call.is_opaque
    /\ Cardinality(Occluders(call.rect, opaque_items)) = 1
    /\ Len(alpha_items) >= 2
    /\ \A i \in 1 .. Len(alpha_items) : alpha_items[i].key = call.key

(* C9: the unit cells covered by opaque_items are those of the union of    *)
(* the rectangles added with is_opaque = true: every opaque add extends    *)
(* the covered cells by exactly the cells of its rectangle, and a          *)
(* non-opaque add leaves them unchanged, whatever the order.               *)
C9_OpaqueCoverage ==
    [][AddStep =>
        Covered(opaque_items') =
            Covered(opaque_items) \cup (IF call'.is_opaque THEN CellsOf(call'.rect) ELSE {})
      ]_vars

\* An opaque add that overlapped stored opaque items and added new cells.
C9_Witness ==
    /\ call.op = "add" /\ call.is_opaque /\ call.ret
    /\ \E j \in 1 .. Len(opaque_items) :
          /\ opaque_items[j].key # call.key
          /\ CellsOf(opaque_items[j].rectangle) \cap CellsOf(call.rect) # {}
    /\ \E j \in 1 .. Len(opaque_items) :
          /\ opaque_items[j].key = call.key
          /\ CellsOf(opaque_items[j].rectangle) # {}
          /\ opaque_items[j].rectangle # call.rect

(* C10: after build, alpha_items is ordered by submission: the items of a  *)
(* command added earlier precede the items of a command added later.       *)
C10_AlphaSubmissionOrder ==
    call.op = "build" =>
        \A p, q \in 1 .. Len(btf_alpha_items) :
            p < q => Origin(call.commands, btf_alpha_items[p].key)
                        <= Origin(call.commands, btf_alpha_items[q].key)

\* A build whose alpha list holds items of two different commands.
C10_Witness ==
    /\ call.op = "build"
    /\ \E p, q \in 1 .. Len(btf_alpha_items) :
          /\ p < q
          /\ Origin(call.commands, btf_alpha_items[p].key)
                < Origin(call.commands, btf_alpha_items[q].key)

\* The bands of rect r around occluder o as the documentation describes them,
\* in top, bottom, left, right order.
SplitBands(r, o) ==
    LET y0 == IF r.min.y > o.min.y THEN r.min.y ELSE o.min.y
        y1 == IF r.max.y < o.max.y THEN r.max.y ELSE o.max.y
    IN  (IF r.min.y < o.min.y
            THEN << Box2D(point2(r.min.x, r.min.y), point2(r.max.x, o.min.y)) >> ELSE <<>>)
        \o (IF r.max.y > o.max.y
            THEN << Box2D(point2(r.min.x, o.max.y), point2(r.max.x, r.max.y)) >> ELSE <<>>)
        \o (IF r.min.x < o.min.x
            THEN << Box2D(point2(r.min.x, y0), point2(o.min.x, y1)) >> ELSE <<>>)
        \o (IF r.max.x > o.max.x
            THEN << Box2D(point2(o.max.x, y0), point2(r.max.x, y1)) >> ELSE <<>>)

\* The last element moved to the front.
LastFirst(v) == IF v = <<>> THEN <<>> ELSE << v[Len(v)] >> \o SubSeq(v, 1, Len(v) - 1)

\* The crate's test basic, in units of 50.
BasicExample ==
    LET b0 == [opaque_items |-> <<>>, alpha_items |-> <<>>]
        b1 == builder_add(b0, Box2D(point2(0, 0), point2(2, 2)), TRUE, 0)
        b2 == builder_add(b1, Box2D(point2(1, 1), point2(3, 3)), FALSE, 1)
    IN  /\ b1.opaque_items = << Item(Box2D(point2(0, 0), point2(2, 2)), 0) >>
        /\ b2.alpha_items = << Item(Box2D(point2(2, 1), point2(3, 2)), 1),
                               Item(Box2D(point2(1, 2), point2(3, 3)), 1) >>

(* C11: output order of a split.  When add(rect) meets exactly one          *)
(* intersecting stored opaque item, the appended rectangles are the emitted *)
(* bands with the last-emitted band first, followed by the other bands in   *)
(* top, bottom, left, right order; top and bottom bands span rect's full    *)
(* width, left and right bands are clipped to the y-span shared with the    *)
(* occluder.  The crate's example: opaque (0,0)-(100,100) then alpha        *)
(* (50,50)-(150,150) gives [(100,50)-(150,100), (50,100)-(150,150)] (here   *)
(* in units of 50).                                                         *)
C11_SplitOrder ==
    [][(AddStep /\ Cardinality(Occluders(call'.rect, opaque_items)) = 1) =>
        LET j == CHOOSE k \in Occluders(call'.rect, opaque_items) : TRUE
            expected == LastFirst(SplitBands(call'.rect, opaque_items[j].rectangle))
        IN  /\ Len(Appended) = Len(expected)
            /\ \A k \in 1 .. Len(expected) : Appended[k].rectangle = expected[k]
            /\ BasicExample
      ]_vars

\* An alpha add overlapping the corner of the only stored opaque item: the
\* right band (emitted last) comes first, then the bottom band.
C11_Witness ==
    /\ call.op = "add" /\ ~call.is_opaque
    /\ call.rect = Box2D(point2(0, 0), point2(2, 2))
    /\ Len(opaque_items) = 1
    /\ opaque_items[1].rectangle = Box2D(point2(0, 0), point2(1, 1))
    /\ Len(alpha_items) = 2
    /\ alpha_items[1].rectangle = Box2D(point2(1, 0), point2(2, 1))
    /\ alpha_items[2].rectangle = Box2D(point2(0, 1), point2(2, 2))

(* C12: one pass of apply_occluder over a non-empty working set examines    *)
(* every fragment present at entry exactly once and never examines a band   *)
(* pushed during the pass; the fragments that do not intersect the occluder *)
(* are still present, with unchanged coordinates, at exit.                  *)
C12_OnePass ==
    /\ \A p \in 1 .. Len(pass.examined) :
          /\ IdOf(pass.examined[p]) # 0
          /\ pass.examined[p] = pass.entry[IdOf(pass.examined[p])]
          /\ \A q \in 1 .. Len(pass.examined) :
                IdOf(pass.examined[q]) = IdOf(pass.examined[p]) => q = p
    /\ pass.pc = "done" =>
          /\ pass.entry # <<>>
          /\ \A k \in 1 .. Len(pass.entry) :
                /\ \E p \in 1 .. Len(pass.examined) : IdOf(pass.examined[p]) = k
                /\ ~intersects(pass.entry[k], pass.occluder) =>
                      Cardinality({ q \in 1 .. Len(pass.rects) :
                                      pass.rects[q] = pass.entry[k] }) = 1

\* A finished pass over several fragments: one was split into bands, one did
\* not intersect the occluder, and swap_remove moved an element.
C12_Witness ==
    /\ pass.pc = "done"
    /\ Len(pass.entry) >= 2
    /\ \E q \in 1 .. Len(pass.rects) : IdOf(pass.rects[q]) = 0
    /\ \E k \in 1 .. Len(pass.entry) : ~intersects(pass.entry[k], pass.occluder)
    /\ \E q \in 1 .. Len(pass.rects) :
          IdOf(pass.rects[q]) # 0 /\ IdOf(pass.rects[q]) # q

(* C13: frame of add(rect, is_opaque, key).  The list not selected by      *)
(* is_opaque is unchanged, the previous contents of the selected list stay  *)
(* as an unmodified prefix in the same order, and every appended item       *)
(* carries exactly key.                                                     *)
C13_AddFrame ==
    [][AddStep =>
        /\ IF call'.is_opaque THEN alpha_items' = alpha_items
                              ELSE opaque_items' = opaque_items
        /\ Len(ListAfter) >= Len(ListBefore)
        /\ \A k \in 1 .. Len(ListBefore) : ListAfter[k] = ListBefore[k]
        /\ \A k \in Len(ListBefore) + 1 .. Len(ListAfter) : ListAfter[k].key = call'.key
      ]_vars

\* A non-opaque add that appended two fragments behind an earlier alpha item,
\* with an opaque item stored.
C13_Witness ==
    /\ call.op = "add" /\ ~call.is_opaque
    /\ Len(opaque_items) >= 1
    /\ Len(alpha_items) >= 3
    /\ alpha_items[1].key # call.key
    /\ alpha_items[Len(alpha_items) - 1].key = call.key
    /\ alpha_items[Len(alpha_items)].key = call.key

\* The step is a call of BackToFrontBuilder::build / BackToFrontBuilder::add.
BuildStep == call'.op = "build"
BtfAddStep == call'.op = "btf_add"

(* C14: lifecycle of BackToFrontBuilder::build.  A build empties the        *)
(* pending commands and overwrites the result lists, so the lists after a   *)
(* build depend only on the commands added since the previous build (or     *)
(* construction): they are those of a fresh builder fed exactly these       *)
(* commands, whatever the lists held before.  A build with no add since the *)
(* previous build leaves both lists empty, and BackToFrontBuilder::add      *)
(* alone never changes the result lists.                                    *)
C14_BuildLifecycle ==
    [][/\ BuildStep =>
            LET f == front_to_back(reverse(commands))
            IN  /\ commands' = <<>>
                /\ SameMultiset(btf_opaque_items', f.opaque_items)
                /\ btf_alpha_items' = reverse(f.alpha_items)
                /\ commands = <<>> => (btf_opaque_items' = <<>> /\ btf_alpha_items' = <<>>)
       /\ BtfAddStep =>
            /\ btf_opaque_items' = btf_opaque_items
            /\ btf_alpha_items' = btf_alpha_items
      ]_vars

\* A build that found no pending command after at least one earlier call:
\* the call before it was a build too (an add would have left a command), and
\* both lists are empty.
C14_Witness ==
    /\ call.op = "build" /\ call.commands = <<>>
    /\ nops >= 2
    /\ commands = <<>>
    /\ btf_opaque_items = <<>> /\ btf_alpha_items = <<>>

(* C15: no zero-area bands.  For every well-formed occluder that can be    *)
(* stored as an opaque item and every fragment intersecting it, each band   *)
(* pushed by apply_occluder has strictly positive width and height.         *)
C15_NoZeroAreaBands ==
    \A q \in 1 .. Len(pass.rects) :
        (pass.pc \in {"loop", "done"} /\ IdOf(pass.rects[q]) = 0) =>
            /\ pass.rects[q].min.x < pass.rects[q].max.x
            /\ pass.rects[q].min.y < pass.rects[q].max.y

\* Two rectangles are apart or meet in an edge or a corner only: along one
\* axis the one ends where, or before, the other begins (for instance
\* a.max.x = b.min.x).
EdgeOrApart(a, b) ==
    \/ a.max.x <= b.min.x \/ b.max.x <= a.min.x
    \/ a.max.y <= b.min.y \/ b.max.y <= a.min.y

(* C16: edge-touching is not overlap.  If rect shares at most an edge or a  *)
(* corner with each stored opaque item and overlaps none of them, add       *)
(* appends rect itself as a single unsplit item and returns true, and no    *)
(* stored item is affected.                                                 *)
C16_TouchingIsVisible ==
    [][(AddStep /\ \A j \in 1 .. Len(opaque_items) :
                      EdgeOrApart(call'.rect, opaque_items[j].rectangle)) =>
          /\ call'.ret
          /\ ListAfter = ListBefore \o << Item(call'.rect, call'.key) >>
          /\ \A j \in 1 .. Len(opaque_items) : opaque_items'[j] = opaque_items[j]
          /\ \A j \in 1 .. Len(alpha_items) : alpha_items'[j] = alpha_items[j]
      ]_vars

\* An add of a rectangle of positive area whose right edge lies on the left
\* edge of a stored opaque item of positive area: it was stored whole.
C16_Witness ==
    /\ call.op = "add" /\ call.is_opaque /\ call.ret
    /\ ~ZeroArea(call.rect)
    /\ Len(opaque_items) = 2
    /\ opaque_items[2] = Item(call.rect, call.key)
    /\ ~ZeroArea(opaque_items[1].rectangle)
    /\ call.rect.max.x = opaque_items[1].rectangle.min.x
    /\ call.rect.min.y < opaque_items[1].rectangle.max.y
    /\ call.rect.max.y > opaque_items[1].rectangle.min.y

(* C17: clear() resets the accumulator.  After clear both lists are empty,  *)
(* and the add and test calls made since the last clear produce the return  *)
(* values and the lists that the same calls produce on a freshly            *)
(* constructed FrontToBackBuilder.                                          *)
C17_ClearResets ==
    LET fresh == front_to_back(log)
        probe == test_fragments(fresh.opaque_items, call.rect)
    IN  /\ call.op = "clear" => (opaque_items = <<>> /\ alpha_items = <<>> /\ log = <<>>)
        /\ opaque_items = fresh.opaque_items
        /\ alpha_items = fresh.alpha_items
        /\ (call.op = "add" /\ ~call.panic) => call.ret = fresh.ret
        /\ call.op = "test" =>
              /\ call.panic = probe.panic
              /\ call.ret = (~probe.panic /\ probe.rects # <<>>)

\* The third call is an add made right after a clear (the log holds this add
\* only): the lists hold the item of this add and nothing else.
C17_Witness ==
    /\ call.op = "add" /\ call.ret
    /\ nops = 3
    /\ Len(log) = 1
    /\ log[1].key = 3
    /\ Len(opaque_items) + Len(alpha_items) = 1

(* C18: implicit precondition of apply_occluder.  In every call reachable  *)
(* from add, test or build, over any sequence of well-formed inputs         *)
(* (zero-area rectangles included), the working set passed to               *)
(* apply_occluder is non-empty, so rects.len() - 1 never underflows and     *)
(* rects[i] is never out of bounds: no operation panics.                    *)
C18_NoPanic == ~call.panic

====
